---- MODULE Spec2Model ----
(***************************************************************************)
(* Model of the Hipflat scraper (src/hipflat_scrapingbee.py): the crawl    *)
(* orchestrator (get_property_links, get_property_details), the page-count *)
(* resolution (get_total_pages), the listing parser                        *)
(* (extract_property_data_from_card) and the detail parser                 *)
(* (extract_detail_data).                                                  *)
(*                                                                         *)
(* Conventions.                                                            *)
(*  - A text that the code analyses (a URL, a description) is a sequence   *)
(*    of tokens; a text that the code only copies is one string.           *)
(*  - An optional value (an element a selector may not find, an attribute  *)
(*    that may be absent) is a sequence of length 0 or 1: None / Some(x).  *)
(*  - The Japanese literals of the source are written in ASCII:            *)
(*      "unknown" = fumei, "ari" = present, "nashi" = absent,              *)
(*      "BasicOnly" = kihon-joho-nomi, "DetailFetched" = shosai-shutoku-   *)
(*      zumi, "Error" = era-.                                              *)
(***************************************************************************)
EXTENDS Integers, Sequences, FiniteSets, TLC

VARIABLES
    pc,                 \* position of the run
    start_page,         \* argument of scrape_hipflat_apartments
    max_pages,          \* argument of scrape_hipflat_apartments
    max_details,        \* argument of scrape_hipflat_apartments
    total_pages,        \* get_property_links: total_pages
    end_page,           \* get_property_links: end_page
    page_num,           \* get_property_links: loop variable
    all_property_data,  \* get_property_links: the aggregate of basic records
    detail_limit,       \* get_property_details: detail_limit
    idx,                \* get_property_details: loop variable (0-based)
    all_results,        \* get_property_details: the records returned
    log,                \* history: every fetch and every sleep, in order
    fin,                \* input of the function under check (pure-function specs)
    fout                \* its result

vars == <<pc, start_page, max_pages, max_details, total_pages, end_page,
          page_num, all_property_data, detail_limit, idx, all_results, log,
          fin, fout>>

runVars == <<pc, start_page, max_pages, max_details, total_pages, end_page,
             page_num, all_property_data, detail_limit, idx, all_results, log>>

----------------------------------------------------------------------------
(* Bounds of the model *)

MaxPageArg == 2
MaxDetailArg == 2
MaxItems == 2
MaxCards == 3

----------------------------------------------------------------------------
(* Generic helpers *)

None == <<>>
Some(x) == <<x>>

Min(a, b) == IF a <= b THEN a ELSE b

RECURSIVE MaxOfSeq(_)
MaxOfSeq(s) ==
    IF Len(s) = 1 THEN s[1]
    ELSE LET m == MaxOfSeq(Tail(s)) IN IF s[1] >= m THEN s[1] ELSE m

SeqsUpTo(S, n) == UNION {[1..k -> S] : k \in 0..n}

----------------------------------------------------------------------------
(* URLs *)

base_url == <<"https:", "/", "/", "www.hipflat.co.th", "/", "ja", "/",
              "apartment-for-rent", "/", "pattaya">>

site_origin == <<"https:", "/", "/", "www.hipflat.co.th">>

\* str.startswith('http')
StartsWithHttp(s) == Len(s) > 0 /\ s[1] \in {"http:", "https:"}

page_url(n) == IF n = 1 THEN base_url ELSE base_url \o <<"?page=", ToString(n)>>

----------------------------------------------------------------------------
(* Fetcher *)

FetchOutcomes == {"ok", "http_error", "exception"}

\* The parsed document on status 200 and nothing otherwise.
make_scrapingbee_request(outcome, doc) ==
    IF outcome = "ok" THEN Some(doc) ELSE None

----------------------------------------------------------------------------
(* Page-count resolution *)

PageNums == {2, 5, 10}
HrefPageNums == {7}

\* The value of an attribute or the stripped text of an element:
\*   "nondigit"  a string for which str.isdigit() is false (the empty string too)
\*   "digit"     a string of decimal digits, n its value
\*   "sup"       a string for which str.isdigit() is true and int() raises
\*               (a superscript digit)
Absent == [k |-> "absent"]
NonDigit == [k |-> "nondigit"]
SupDigit == [k |-> "sup"]
Digit(n) == [k |-> "digit", n |-> n]

ItemValues == {Absent, NonDigit, SupDigit} \cup {Digit(n) : n \in PageNums}
TextValues == ItemValues \ {Absent}

IsDigitStr(v) == v.k \in {"digit", "sup"}

PageItems == [dv : ItemValues, text : TextValues]

\* The href of the a[data-page="last"] link: no link, a link with no href, an
\* href the pattern page=(\d+) does not match, an href it matches.
LastLinks == {[k |-> "nolink"], [k |-> "nohref"], [k |-> "nomatch"]}
                 \cup {[k |-> "page", n |-> n] : n \in HrefPageNums}

\* A fetched first listing page, as far as get_total_pages reads it:
\* pagination = None when nothing matches .pagination, else the li.page items
\* of the first match.
PaginationDocs(maxItems) ==
    [pagination : {None} \cup {Some(s) : s \in SeqsUpTo(PageItems, maxItems)},
     last : LastLinks]

\* Mutant: only the data-value attribute is read.
item_contribution_data_value_only(item) ==
    IF IsDigitStr(item.dv)
    THEN (IF item.dv.k = "sup" THEN [k |-> "raise"] ELSE [k |-> "num", n |-> item.dv.n])
    ELSE [k |-> "skip"]

\* What one li.page item does to page_numbers (the body of the for loop):
\* it appends a number, appends nothing, or int() raises.
item_contribution(item) ==
    IF IsDigitStr(item.dv)
    THEN (IF item.dv.k = "sup" THEN [k |-> "raise"] ELSE [k |-> "num", n |-> item.dv.n])
    ELSE IF IsDigitStr(item.text)
         THEN (IF item.text.k = "sup" THEN [k |-> "raise"]
               ELSE [k |-> "num", n |-> item.text.n])
         ELSE [k |-> "skip"]

\* page_numbers after the loop over the items, or <<"raise">> once int() raised.
RECURSIVE collect_page_numbers(_, _)
collect_page_numbers(items, acc) ==
    IF items = <<>> THEN [k |-> "nums", nums |-> acc]
    ELSE LET c == item_contribution(Head(items)) IN
         IF c.k = "raise" THEN [k |-> "raise"]
         ELSE IF c.k = "num" THEN collect_page_numbers(Tail(items), Append(acc, c.n))
         ELSE collect_page_numbers(Tail(items), acc)

\* The second search: the last-page link.
last_page_from_link(last) == IF last.k = "page" THEN last.n ELSE 1

\* get_total_pages on the result of its fetch (None: the fetch failed).
get_total_pages(soup) ==
    IF soup = None THEN 1
    ELSE LET doc == soup[1] IN
         IF doc.pagination # None
         THEN LET r == collect_page_numbers(doc.pagination[1], <<>>) IN
              IF r.k = "raise" THEN 1
              ELSE IF r.nums # <<>> THEN MaxOfSeq(r.nums)
              ELSE last_page_from_link(doc.last)
         ELSE last_page_from_link(doc.last)

----------------------------------------------------------------------------
(* Listing parser *)

\* A description is a sequence of words; the code tests it for keywords.
Lower(w) ==
    CASE w = "Furnished" -> "furnished"
      [] w = "WiFi" -> "wifi"
      [] w = "Sauna" -> "sauna"
      [] OTHER -> w

LowerText(t) == [i \in 1..Len(t) |-> Lower(t[i])]

Contains(t, w) == \E i \in 1..Len(t) : t[i] = w

wifi_terms == {"wifi", "wi-fi", "intaanetto", "netto-setsuzoku", "internet"}

\* A card (.snippet element), as far as extract_property_data_from_card reads it:
\*   link   "none": no <a>; "nohref": the first <a> has no href; "href"
\*   href   the href of the first <a> (the empty text when link # "href")
\*   raises TRUE when a step after the URL raises (the except clause logs it)
\*   title, price, address, desc: the stripped text of the element, if any
\*   size_sel: the number a size selector's text carries before "m2", if any
\*   size_html: the match of the pattern over the card's markup, if any
Card(link, href, raises, title, price, address, desc, size_sel, size_html) ==
    [link |-> link, href |-> href, raises |-> raises, title |-> title,
     price |-> price, address |-> address, desc |-> desc,
     size_sel |-> size_sel, size_html |-> size_html]

\* The URL a card resolves to: the empty text when it has none.
card_url(card) ==
    IF card.link = "href" /\ card.href # <<>>
    THEN (IF StartsWithHttp(card.href) THEN card.href ELSE site_origin \o card.href)
    ELSE <<>>

OrDefault(opt, default) == IF opt = None THEN default ELSE opt[1]

card_size(card) ==
    IF card.size_sel # None THEN card.size_sel[1] \o <<"m2">>
    ELSE IF card.size_html # None THEN card.size_html[1]
    ELSE <<>>

extract_property_data_from_card(card) ==
    IF card.raises
    THEN [title |-> "unknown", price |-> "unknown", address |-> "unknown",
          description |-> <<>>, size |-> <<>>, url |-> card_url(card)]
    ELSE [title |-> OrDefault(card.title, "unknown"),
          price |-> OrDefault(card.price, "unknown"),
          address |-> OrDefault(card.address, "unknown"),
          description |-> OrDefault(card.desc, <<>>),
          size |-> card_size(card),
          url |-> card_url(card)]

\* Mutant: every card becomes a record.
keep_card_always(property_data) == TRUE

\* if property_data['url']: the card becomes a record
keep_card(property_data) == property_data.url # <<>>

\* The loop over the cards of one page, appending to all_property_data.
RECURSIVE parse_listing(_, _)
parse_listing(cards, acc) ==
    IF cards = <<>> THEN acc
    ELSE LET property_data == extract_property_data_from_card(Head(cards)) IN
         parse_listing(Tail(cards),
                       IF keep_card(property_data) THEN Append(acc, property_data)
                       ELSE acc)

----------------------------------------------------------------------------
(* Records of the detail phase *)

\* re.search(r'/([^/]+)$', url): the text after the last "/", when there is
\* a "/" and something follows it.
LastSlash(url) ==
    IF \E i \in 1..Len(url) : url[i] = "/"
    THEN CHOOSE i \in 1..Len(url) :
            url[i] = "/" /\ \A j \in (i+1)..Len(url) : url[j] # "/"
    ELSE 0

url_last_segment(url) ==
    LET i == LastSlash(url) IN
    IF i > 0 /\ i < Len(url) THEN Some(SubSeq(url, i + 1, Len(url))) ELSE None

has_furnished_keyword(description) ==
    Contains(LowerText(description), "furnished") \/ Contains(description, "kagu")

has_wifi_keyword(description) ==
    \E term \in wifi_terms : Contains(LowerText(description), term)

has_sauna_keyword(description) ==
    Contains(LowerText(description), "sauna") \/ Contains(description, "sauna-kana")

\* The dictionary both get_property_details and extract_detail_data start from.
seed_record(basic_info, status) ==
    [name |-> basic_info.title, address |-> basic_info.address,
     rent |-> basic_info.price, property_id |-> <<"unknown">>,
     min_term |-> <<>>, built_date |-> <<>>, furnished |-> <<>>,
     size |-> basic_info.size, sauna |-> "nashi", floor |-> <<>>,
     wifi |-> "nashi", url |-> basic_info.url, line |-> <<>>, status |-> status]

with_url_id(property_data, url) ==
    LET m == url_last_segment(url) IN
    IF m # None THEN [property_data EXCEPT !.property_id = m[1]] ELSE property_data

\* Mutant: the status of the seed of extract_detail_data, the empty text.
initial_status_empty == ""


initial_status == "BasicOnly"

\* The record get_property_details pre-populates for one basic record.
basic_record(basic_info) ==
    LET p0 == with_url_id(seed_record(basic_info, initial_status), basic_info.url)
        d == basic_info.description
        p1 == IF d # <<>> /\ has_furnished_keyword(d)
              THEN [p0 EXCEPT !.furnished = <<"ari">>] ELSE p0
    IN  IF d # <<>> /\ has_wifi_keyword(d) THEN [p1 EXCEPT !.wifi = "ari"] ELSE p1

prepopulate(property_list) ==
    [i \in 1..Len(property_list) |-> basic_record(property_list[i])]

----------------------------------------------------------------------------
(* Detail parser *)

\* A fetched detail page, as far as extract_detail_data reads it:
\*   raises_at  the step at which an exception reaches the outer except clause
\*              ("none": no step raises)
\*   id_elem    the stripped text of the first element an id selector finds
\*   date_sel   the stripped texts of the first matches of the date selectors
\*              that match, in selector order
\*   date_html  group 1, stripped, of the first date pattern matching the markup
\*   floor_sel  for the first floor selector that matches: its stripped text and
\*              the first run of digits in it
\*   floor_html group 1 of the first floor pattern matching the markup
\*   details    the label/value pairs of the first details section present,
\*              each with the bucket its label falls in
\*   desc_elem  the stripped text of the first description element
\*   amenities  the texts of the items of the first amenities section present
\*   contact    for the first contact section present: the Line handle, if any
DetailSteps == <<"id", "date", "floor", "details", "description", "amenities",
                 "contact">>

step_id(pd, doc, basic_info) ==
    LET p0 == with_url_id(pd, basic_info.url) IN
    IF doc.id_elem # None THEN [p0 EXCEPT !.property_id = doc.id_elem[1]] ELSE p0

FirstNonEmpty(texts) ==
    IF \E i \in 1..Len(texts) : texts[i] # <<>>
    THEN Some(texts[CHOOSE i \in 1..Len(texts) :
                       texts[i] # <<>> /\ \A j \in 1..(i-1) : texts[j] = <<>>])
    ELSE None

step_date(pd, doc) ==
    LET hit == FirstNonEmpty(doc.date_sel)
        p0 == IF hit # None THEN [pd EXCEPT !.built_date = hit[1]] ELSE pd
    IN  IF p0.built_date = <<>> /\ doc.date_html # None
        THEN [p0 EXCEPT !.built_date = doc.date_html[1]] ELSE p0

step_floor(pd, doc) ==
    LET p0 == IF doc.floor_sel # None
              THEN [pd EXCEPT !.floor = IF doc.floor_sel[1].digits # None
                                        THEN doc.floor_sel[1].digits[1]
                                        ELSE doc.floor_sel[1].text]
              ELSE pd
    IN  IF p0.floor = <<>> /\ doc.floor_html # None
        THEN [p0 EXCEPT !.floor = doc.floor_html[1]] ELSE p0

\* One label/value pair: nothing happens unless both texts are non-empty.
apply_detail_item(pd, item) ==
    IF item.label = <<>> \/ item.value = <<>> THEN pd
    ELSE IF Contains(item.label, "saitei")
            /\ (Contains(item.label, "riyou") \/ Contains(item.label, "keiyaku"))
         THEN [pd EXCEPT !.min_term = item.value]
    ELSE IF Contains(item.label, "kagu") THEN [pd EXCEPT !.furnished = item.value]
    ELSE IF Contains(item.label, "saizu") \/ Contains(item.label, "menseki")
            \/ Contains(item.label, "eria")
         THEN [pd EXCEPT !.size = item.value]
    ELSE pd

RECURSIVE apply_detail_items(_, _)
apply_detail_items(pd, items) ==
    IF items = <<>> THEN pd
    ELSE apply_detail_items(apply_detail_item(pd, Head(items)), Tail(items))

step_details(pd, doc) ==
    IF doc.details # None THEN apply_detail_items(pd, doc.details[1]) ELSE pd

\* The local variable description after the description selectors.
detail_description(doc, basic_info) ==
    IF doc.desc_elem # None THEN doc.desc_elem[1] ELSE basic_info.description

\* The contract-duration patterns over the description: the match, if any.
contract_match(description) ==
    IF Contains(LowerText(description), "contract") /\ Contains(description, "1year")
    THEN Some(<<"1year", "contract">>) ELSE None

step_description(pd, doc, basic_info) ==
    LET description == detail_description(doc, basic_info)
        p0 == IF description # <<>> /\ pd.furnished = <<>>
                 /\ has_furnished_keyword(description)
              THEN [pd EXCEPT !.furnished = <<"ari">>] ELSE pd
    IN  IF description # <<>> /\ p0.min_term = <<>>
           /\ contract_match(description) # None
        THEN [p0 EXCEPT !.min_term = contract_match(description)[1]] ELSE p0

amenity_has_sauna(text) ==
    Contains(LowerText(text), "sauna") \/ Contains(LowerText(text), "sauna-kana")

amenity_has_wifi(text) ==
    \E term \in wifi_terms : Contains(LowerText(text), term)

step_amenities(pd, doc, basic_info) ==
    LET description == detail_description(doc, basic_info) IN
    IF doc.amenities # None
    THEN LET items == doc.amenities[1]
             has_sauna == \E i \in 1..Len(items) : amenity_has_sauna(items[i])
             has_wifi == \E i \in 1..Len(items) : amenity_has_wifi(items[i])
         IN  [pd EXCEPT !.sauna = IF has_sauna THEN "ari" ELSE "nashi",
                        !.wifi = IF has_wifi THEN "ari" ELSE "nashi"]
    ELSE IF description # <<>>
    THEN LET p0 == IF has_wifi_keyword(description)
                   THEN [pd EXCEPT !.wifi = "ari"] ELSE pd
         IN  IF has_sauna_keyword(description)
             THEN [p0 EXCEPT !.sauna = "ari"] ELSE p0
    ELSE pd

step_contact(pd, doc) ==
    IF doc.contact # None /\ doc.contact[1] # None
    THEN [pd EXCEPT !.line = doc.contact[1][1]] ELSE pd

apply_step(step, pd, doc, basic_info) ==
    CASE step = "id" -> step_id(pd, doc, basic_info)
      [] step = "date" -> step_date(pd, doc)
      [] step = "floor" -> step_floor(pd, doc)
      [] step = "details" -> step_details(pd, doc)
      [] step = "description" -> step_description(pd, doc, basic_info)
      [] step = "amenities" -> step_amenities(pd, doc, basic_info)
      [] step = "contact" -> step_contact(pd, doc)

\* What a step has written when it raises: the id step has already taken the
\* id from the URL when its selectors are evaluated; the other steps write
\* after their last selector or pattern.
before_raise(step, pd, basic_info) ==
    IF step = "id" THEN with_url_id(pd, basic_info.url) ELSE pd

\* Mutant: an extraction that found no listing date counts as an error.
RECURSIVE run_detail_steps_strict(_, _, _, _)
run_detail_steps_strict(pd, doc, basic_info, k) ==
    IF k > Len(DetailSteps)
    THEN [pd EXCEPT !.status = IF pd.built_date = <<>> THEN "Error"
                                ELSE "DetailFetched"]
    ELSE IF doc.raises_at = DetailSteps[k]
         THEN [before_raise(DetailSteps[k], pd, basic_info) EXCEPT !.status = "Error"]
    ELSE run_detail_steps_strict(apply_step(DetailSteps[k], pd, doc, basic_info),
                                 doc, basic_info, k + 1)

\* The body of the try block from step k on, and its except clause.
RECURSIVE run_detail_steps(_, _, _, _)
run_detail_steps(pd, doc, basic_info, k) ==
    IF k > Len(DetailSteps) THEN [pd EXCEPT !.status = "DetailFetched"]
    ELSE IF doc.raises_at = DetailSteps[k]
         THEN [before_raise(DetailSteps[k], pd, basic_info) EXCEPT !.status = "Error"]
    ELSE run_detail_steps(apply_step(DetailSteps[k], pd, doc, basic_info),
                          doc, basic_info, k + 1)

extract_detail_data(doc, basic_info) ==
    run_detail_steps(seed_record(basic_info, ""), doc, basic_info, 1)

----------------------------------------------------------------------------
(* Output formatter *)

\* A source record is a dictionary: a sequence of <<key, value>> pairs in
\* insertion order, no key twice. "NaN" is the missing value pandas puts in
\* the cell of a record that lacks a column other records have; "maru" is the
\* presence mark.
HasKey(d, key) == SelectSeq(d, LAMBDA pair : pair[1] = key) # <<>>
Get(d, key) == SelectSeq(d, LAMBDA pair : pair[1] = key)[1][2]

InSeq(s, x) == \E i \in 1..Len(s) : s[i] = x

\* acc and, after it, the keys of one dictionary that acc does not hold yet,
\* in the order of the dictionary.
add_keys(d, acc) ==
    acc \o SelectSeq([i \in 1..Len(d) |-> d[i][1]], LAMBDA key : ~InSeq(acc, key))

\* The columns of the frame: the keys of the records in the order of their
\* first appearance. (The one-element sets bind the arguments of the next
\* call to their values, so that each is computed once.)
RECURSIVE df_columns(_, _)
df_columns(records, acc) ==
    IF records = <<>> THEN acc
    ELSE CHOOSE columns \in
             {df_columns(rest, next) :
                 rest \in {Tail(records)},
                 next \in {add_keys(Head(records), acc)}} : TRUE

\* pd.DataFrame(property_details)
DataFrame(records) ==
    CHOOSE df \in
        {[columns |-> columns,
          rows |-> [i \in 1..Len(records) |->
                      [j \in 1..Len(columns) |->
                         IF HasKey(records[i], columns[j])
                         THEN Get(records[i], columns[j]) ELSE "NaN"]]] :
            columns \in {df_columns(records, <<>>)}} : TRUE

required_columns ==
    <<"name", "address", "rent", "min_term", "built_date", "furnished", "size",
      "sauna", "floor", "wifi", "url", "line", "status">>

\* The cell of a row under a column; a column the frame lacks was added with
\* the empty string in every row.
df_cell(df, row, col) ==
    IF InSeq(df.columns, col)
    THEN row[CHOOSE j \in 1..Len(df.columns) : df.columns[j] = col]
    ELSE ""

\* lambda x: mark if x == 'ari' else ''
presence_mark(x) == IF x = "ari" THEN "maru" ELSE ""

format_for_spreadsheet(df) ==
    [columns |-> <<"No">> \o required_columns,
     rows |-> [i \in 1..Len(df.rows) |->
                 <<i>> \o [j \in 1..Len(required_columns) |->
                             LET col == required_columns[j]
                                 x == df_cell(df, df.rows[i], col)
                             IN  IF col \in {"wifi", "sauna"} THEN presence_mark(x)
                                 ELSE x]]]

\* The dictionary of a record of the detail phase, in the key order of its
\* construction.
record_dict(r) ==
    <<<<"name", r.name>>, <<"address", r.address>>, <<"rent", r.rent>>,
      <<"property_id", r.property_id>>, <<"min_term", r.min_term>>,
      <<"built_date", r.built_date>>, <<"furnished", r.furnished>>,
      <<"size", r.size>>, <<"sauna", r.sauna>>, <<"floor", r.floor>>,
      <<"wifi", r.wifi>>, <<"url", r.url>>, <<"line", r.line>>,
      <<"status", r.status>>>>

----------------------------------------------------------------------------
(* Documents the site returns in the runs of the model *)

NoText == <<>>

CardRel ==
    Card("href", <<"/", "a">>, FALSE, Some("T1"), Some("P1"), Some("A1"),
         Some(<<"Furnished", "room">>), Some(<<"35">>), None)
CardAbs ==
    Card("href", site_origin \o <<"/", "b">>, FALSE, Some("T2"), None, None,
         Some(<<"WiFi">>), None, Some(<<"40", "m2">>))
CardNoAnchor ==
    Card("none", NoText, FALSE, Some("T3"), None, None, None, None, None)
CardNoHref ==
    Card("nohref", NoText, FALSE, None, None, None, None, None, None)
CardEmptyHref ==
    Card("href", NoText, TRUE, None, None, None, None, None, None)

CardKinds == {CardRel, CardAbs, CardNoAnchor, CardNoHref, CardEmptyHref}

\* Listing pages of the runs: no card, a page with one card lacking a URL,
\* a page with one card.
ListingDocs == {<<>>, <<CardRel, CardNoAnchor>>, <<CardAbs>>}

RunPaginationDocs ==
    {[pagination |-> None, last |-> [k |-> "nolink"]],
     [pagination |-> Some(<<[dv |-> Digit(2), text |-> NonDigit]>>),
      last |-> [k |-> "nolink"]],
     [pagination |-> Some(<<[dv |-> Absent, text |-> Digit(5)]>>),
      last |-> [k |-> "nolink"]]}

DetailDoc(raises_at, id_elem, amenities) ==
    [raises_at |-> raises_at, id_elem |-> id_elem, date_sel |-> <<>>,
     date_html |-> None, floor_sel |-> None, floor_html |-> None,
     details |-> None, desc_elem |-> None, amenities |-> amenities,
     contact |-> None]

DetailDocs ==
    {DetailDoc("none", Some(<<"ID7">>), Some(<<<<"Sauna">>>>)),
     DetailDoc("none", None, None),
     DetailDoc("floor", None, None)}

----------------------------------------------------------------------------
(* History *)

FetchEv(phase, unit, n, url, soup) ==
    [kind |-> "fetch", phase |-> phase, unit |-> unit, n |-> n, url |-> url,
     ok |-> soup # None, soup |-> soup]

SleepEv(phase) == [kind |-> "sleep", phase |-> phase]

\* df.to_csv(filename, ...)
CsvEv == [kind |-> "csv"]

\* self.update_google_sheet(formatted_df)
PublishEv == [kind |-> "publish"]

----------------------------------------------------------------------------
(* Crawl orchestrator *)

\* Mutant: start_page clamped to [1, end_page].
first_page_of_clamped(start, endp) ==
    IF start < 1 THEN 1 ELSE IF start > endp THEN endp ELSE start

\* range(start_page, end_page + 1) starts at start_page
first_page_of(start, endp) == start

\* if page_num > start_page: sleep
needs_wait_page(n, start) == n > start

\* Mutant: a failed page fetch drops what was collected so far.
page_result_drops(soup, acc) ==
    IF soup = None THEN <<>> ELSE parse_listing(soup[1], acc)

\* Mutant: a failed page is fetched again.
page_advance_retries(soup, n) == IF soup = None THEN n ELSE n + 1

\* The next page_num: the for loop advances after a failure (continue) and
\* after a success alike.
page_advance(soup, n) == n + 1

\* The effect of one fetched listing page on all_property_data.
page_result(soup, acc) ==
    IF soup = None THEN acc ELSE parse_listing(soup[1], acc)

\* Mutant: an empty aggregate goes on to the detail phase.
gives_up_never(property_basic_info) == FALSE

\* if not property_basic_info: return None
gives_up(property_basic_info) == property_basic_info = <<>>

\* Mutant: the detail result is written one index further.
detail_result_next_index(results, i, soup, basic_info) ==
    IF soup = None THEN results
    ELSE [results EXCEPT ![((i + 1) % Len(results)) + 1] =
                             extract_detail_data(soup[1], basic_info)]

\* Mutant: end_page ignores max_pages.
end_page_of_total(total, maxp) == total

end_page_of(total, maxp) == Min(total, maxp)

\* Mutant: the limit ignores the number of max_details.
detail_limit_of_all(maxd, n) == IF maxd > 0 THEN n ELSE 0


detail_limit_of(maxd, n) == IF maxd > 0 THEN Min(maxd, n) ELSE 0

\* Mutant: the wait also precedes the first detail fetch.
needs_wait_detail_always(i) == i >= 0

\* if idx > 0: sleep
needs_wait_detail(i) == i > 0

\* Mutant: a failed detail fetch marks the record as an error.
detail_result_marks_error(results, i, soup, basic_info) ==
    IF soup = None THEN [results EXCEPT ![i + 1].status = "Error"]
    ELSE [results EXCEPT ![i + 1] = extract_detail_data(soup[1], basic_info)]

\* The effect of one detail fetch on all_results (i is 0-based).
detail_result(results, i, soup, basic_info) ==
    IF soup = None THEN results
    ELSE [results EXCEPT ![i + 1] = extract_detail_data(soup[1], basic_info)]

StartPages == 0..(MaxPageArg + 1)
MaxPagesArgs == 0..MaxPageArg
MaxDetailsArgs == (0 - 1)..MaxDetailArg

Idle == <<>>

Init ==
    /\ pc = "start"
    /\ start_page \in StartPages
    /\ max_pages \in MaxPagesArgs
    /\ max_details \in MaxDetailsArgs
    /\ total_pages = 0
    /\ end_page = 0
    /\ page_num = 0
    /\ all_property_data = <<>>
    /\ detail_limit = 0
    /\ idx = 0
    /\ all_results = <<>>
    /\ log = <<>>
    /\ fin = Idle
    /\ fout = Idle

\* get_property_links up to its loop: get_total_pages and end_page.
Discover ==
    /\ pc = "start"
    /\ \E outcome \in FetchOutcomes, doc \in RunPaginationDocs :
          LET soup == make_scrapingbee_request(outcome, doc) IN
          /\ total_pages' = get_total_pages(soup)
          /\ end_page' = end_page_of(get_total_pages(soup), max_pages)
          /\ page_num' = first_page_of(start_page,
                                       end_page_of(get_total_pages(soup), max_pages))
          /\ log' = Append(log, FetchEv(1, "discovery", 0, base_url, soup))
    /\ all_property_data' = <<>>
    /\ pc' = "pages"
    /\ UNCHANGED <<start_page, max_pages, max_details, detail_limit, idx,
                   all_results, fin, fout>>

\* One iteration of the page loop of get_property_links.
PageStep ==
    /\ pc = "pages"
    /\ page_num <= end_page
    /\ \E outcome \in FetchOutcomes, doc \in ListingDocs :
          LET soup == make_scrapingbee_request(outcome, doc) IN
          /\ log' = log
                    \o (IF needs_wait_page(page_num, start_page)
                        THEN <<SleepEv(1)>> ELSE <<>>)
                    \o <<FetchEv(1, "page", page_num, page_url(page_num), soup)>>
          /\ all_property_data' = page_result(soup, all_property_data)
          /\ page_num' = page_advance(soup, page_num)
    /\ UNCHANGED <<pc, start_page, max_pages, max_details, total_pages, end_page,
                   detail_limit, idx, all_results, fin, fout>>

\* The page loop is over; scrape_hipflat_apartments gives up on an empty
\* aggregate, and get_property_details starts otherwise.
PagesDone ==
    /\ pc = "pages"
    /\ page_num > end_page
    /\ IF gives_up(all_property_data)
       THEN /\ pc' = "failed"
            /\ UNCHANGED <<detail_limit, idx, all_results>>
       ELSE /\ pc' = "details"
            /\ detail_limit' = detail_limit_of(max_details, Len(all_property_data))
            /\ all_results' = prepopulate(all_property_data)
            /\ idx' = 0
    /\ UNCHANGED <<start_page, max_pages, max_details, total_pages, end_page,
                   page_num, all_property_data, log, fin, fout>>

\* One iteration of the detail loop of get_property_details.
DetailStep ==
    /\ pc = "details"
    /\ detail_limit > 0
    /\ idx < detail_limit
    /\ LET basic_info == all_property_data[idx + 1] IN
       IF basic_info.url = <<>>
       THEN UNCHANGED <<log, all_results>>
       ELSE \E outcome \in FetchOutcomes, doc \in DetailDocs :
               LET soup == make_scrapingbee_request(outcome, doc) IN
               /\ log' = log
                         \o (IF needs_wait_detail(idx) THEN <<SleepEv(2)>> ELSE <<>>)
                         \o <<FetchEv(2, "detail", idx, basic_info.url, soup)>>
               /\ all_results' = detail_result(all_results, idx, soup, basic_info)
    /\ idx' = idx + 1
    /\ UNCHANGED <<pc, start_page, max_pages, max_details, total_pages, end_page,
                   page_num, all_property_data, detail_limit, fin, fout>>

\* get_property_details returns all_results, and scrape_hipflat_apartments
\* goes on to its end: the CSV export when save_csv is set, the formatter, the
\* publication when a spreadsheet id is set, the formatted frame as result.
DetailsDone ==
    /\ pc = "details"
    /\ (detail_limit <= 0 \/ idx >= detail_limit)
    /\ \E save_csv \in BOOLEAN, has_spreadsheet_id \in BOOLEAN :
          log' = log \o (IF save_csv THEN <<CsvEv>> ELSE <<>>)
                     \o (IF has_spreadsheet_id THEN <<PublishEv>> ELSE <<>>)
    /\ \E property_details \in {[i \in 1..Len(all_results) |->
                                      record_dict(all_results[i])]} :
          \E df \in {DataFrame(property_details)} :
             fout' = Some(format_for_spreadsheet(df))
    /\ pc' = "done"
    /\ UNCHANGED <<start_page, max_pages, max_details, total_pages, end_page,
                   page_num, all_property_data, detail_limit, idx, all_results,
                   fin>>

Next == Discover \/ PageStep \/ PagesDone \/ DetailStep \/ DetailsDone

Spec == Init /\ [][Next]_vars

\* The run is sequential and every request returns (timeout=60): a step that
\* can be taken is taken.
FairSpec == Spec /\ WF_vars(Next)

----------------------------------------------------------------------------
(* Specifications of the pure functions *)

InitFn(inputs) ==
    /\ pc = "fn"
    /\ start_page = 1
    /\ max_pages = 0
    /\ max_details = 0
    /\ total_pages = 0
    /\ end_page = 0
    /\ page_num = 0
    /\ all_property_data = <<>>
    /\ detail_limit = 0
    /\ idx = 0
    /\ all_results = <<>>
    /\ log = <<>>
    /\ fin \in {Some(x) : x \in inputs}
    /\ fout = Idle

\* The listing parser on the cards of one page.
InitListing == InitFn(SeqsUpTo(CardKinds, MaxCards))

ApplyListing ==
    /\ pc = "fn"
    /\ fout' = Some(parse_listing(fin[1], <<>>))
    /\ pc' = "fn_done"
    /\ UNCHANGED <<start_page, max_pages, max_details, total_pages, end_page,
                   page_num, all_property_data, detail_limit, idx, all_results,
                   log, fin>>

SpecListing == InitListing /\ [][ApplyListing]_vars

\* get_total_pages on the result of the discovery fetch.
InitTotalPages ==
    InitFn({None} \cup {Some(d) : d \in PaginationDocs(MaxItems)})

ApplyTotalPages ==
    /\ pc = "fn"
    /\ fout' = Some(get_total_pages(fin[1]))
    /\ pc' = "fn_done"
    /\ UNCHANGED <<start_page, max_pages, max_details, total_pages, end_page,
                   page_num, all_property_data, detail_limit, idx, all_results,
                   log, fin>>

SpecTotalPages == InitTotalPages /\ [][ApplyTotalPages]_vars

\* extract_detail_data on a fetched detail page and its basic record.
DetailIdElems == {None, Some(<<>>), Some(<<"ID7">>)}
DetailDateSels == {<<>>, <<NoText, <<"2024-01-01">>>>}
DetailDateHtmls == {None, Some(<<"2024-02-02">>)}
DetailFloorSels == {None, Some([digits |-> Some(<<"12">>), text |-> <<"12", "kai">>])}
DetailDetails == {None, Some(<<[label |-> <<"kagu">>, value |-> <<"tsuki">>]>>)}
DetailDescElems == {None, Some(NoText), Some(<<"WiFi", "Sauna">>)}
DetailAmenities ==
    {None, Some(<<>>), Some(<<<<"Pool">>>>), Some(<<<<"WiFi">>>>),
     Some(<<<<"Pool">>, <<"Sauna">>>>), Some(<<<<"free", "internet">>, <<"Sauna">>>>)}
DetailContacts == {None, Some(Some(<<"line7">>))}

DetailPages ==
    [raises_at : {"none"} \cup {DetailSteps[k] : k \in 1..Len(DetailSteps)},
     id_elem : DetailIdElems, date_sel : DetailDateSels,
     date_html : DetailDateHtmls, floor_sel : DetailFloorSels,
     floor_html : {None}, details : DetailDetails, desc_elem : DetailDescElems,
     amenities : DetailAmenities, contact : DetailContacts]

BasicInfos ==
    {extract_property_data_from_card(CardRel),
     extract_property_data_from_card(CardAbs),
     [title |-> "T4", price |-> "unknown", address |-> "unknown",
      description |-> <<"Sauna", "internet">>, size |-> <<>>,
      url |-> site_origin \o <<"/", "c", "/">>]}

InitDetail == InitFn([doc : DetailPages, basic_info : BasicInfos])

ApplyDetail ==
    /\ pc = "fn"
    /\ fout' = Some(extract_detail_data(fin[1].doc, fin[1].basic_info))
    /\ pc' = "fn_done"
    /\ UNCHANGED <<start_page, max_pages, max_details, total_pages, end_page,
                   page_num, all_property_data, detail_limit, idx, all_results,
                   log, fin>>

SpecDetail == InitDetail /\ [][ApplyDetail]_vars

\* format_for_spreadsheet on the frame of a list of source records.
FullDict ==
    <<<<"name", "T1">>, <<"address", "A1">>, <<"rent", "P1">>,
      <<"property_id", "a">>, <<"min_term", "">>, <<"built_date", "d1">>,
      <<"furnished", "ari">>, <<"size", "35m2">>, <<"sauna", "nashi">>,
      <<"floor", "12">>, <<"wifi", "ari">>, <<"url", "u1">>, <<"line", "">>,
      <<"status", "DetailFetched">>>>

Reverse(s) == [i \in 1..Len(s) |-> s[Len(s) + 1 - i]]

SourceDicts ==
    {FullDict,
     Reverse(FullDict),
     <<<<"wifi", "nashi">>, <<"sauna", "ari">>, <<"name", "T2">>>>,
     <<<<"name", "T3">>, <<"url", "u3">>>>,
     <<<<"extra", "x">>, <<"name", "T4">>, <<"wifi", "ari">>>>,
     <<<<"wifi", "yes">>, <<"status", "BasicOnly">>>>,
     <<<<"property_id", "b">>>>,
     <<>>}

MaxRecords == 2

InitFormat == InitFn(SeqsUpTo(SourceDicts, MaxRecords))

ApplyFormat ==
    /\ pc = "fn"
    /\ fout' = Some(format_for_spreadsheet(DataFrame(fin[1])))
    /\ pc' = "fn_done"
    /\ UNCHANGED <<start_page, max_pages, max_details, total_pages, end_page,
                   page_num, all_property_data, detail_limit, idx, all_results,
                   log, fin>>

SpecFormat == InitFormat /\ [][ApplyFormat]_vars

----------------------------------------------------------------------------
(* Reading the history *)

Fetches == {k \in 1..Len(log) : log[k].kind = "fetch"}
Sleeps == {k \in 1..Len(log) : log[k].kind = "sleep"}
DetailFetches == {k \in Fetches : log[k].unit = "detail"}
PageFetches == {k \in Fetches : log[k].unit = "page"}

IsPageEv(e) == e.kind = "fetch" /\ e.unit = "page"
PageEvents == SelectSeq(log, IsPageEv)

InDetailPhase == pc \in {"details", "done"}
PagesOver == pc \in {"details", "done", "failed"}

Statuses == {"BasicOnly", "DetailFetched", "Error"}

\* detail_limit as the documentation of get_property_details states it
ExpectedDetailLimit ==
    IF max_details > 0 THEN Min(max_details, Len(all_property_data)) ELSE 0

----------------------------------------------------------------------------
(* Claims *)

\* C1: every record get_property_details holds has a status among BasicOnly,
\* DetailFetched and Error, and every record at an index >= detail_limit has
\* the status BasicOnly, whatever the detail fetches did.
C1_StatusOfRecords ==
    InDetailPhase =>
        /\ Len(all_results) = Len(all_property_data)
        /\ \A i \in 1..Len(all_results) :
              /\ all_results[i].status \in Statuses
              /\ (i - 1 >= ExpectedDetailLimit => all_results[i].status = "BasicOnly")

\* C1 witness: a finished run with a record beyond the limit, one record that
\* a detail page enriched and one whose extraction raised.
C1_Witness ==
    /\ pc = "done"
    /\ Len(all_results) > ExpectedDetailLimit
    /\ \E i, j \in 1..Len(all_results) :
          all_results[i].status = "Error" /\ all_results[j].status = "DetailFetched"

\* C2: the number of detail fetches never exceeds detail_limit =
\* min(max_details, number of basic records) if max_details > 0 else 0; with
\* max_details <= 0 no detail fetch is made and every record is BasicOnly.
C2_DetailFetchesBounded ==
    /\ Cardinality(DetailFetches) <= ExpectedDetailLimit
    /\ (InDetailPhase /\ max_details <= 0) =>
          /\ DetailFetches = {}
          /\ \A i \in 1..Len(all_results) : all_results[i].status = "BasicOnly"

\* C2 witness: a finished run where the limit cut the detail phase short.
C2_Witness ==
    /\ pc = "done"
    /\ max_details = 1
    /\ Len(all_property_data) >= 2
    /\ Cardinality(DetailFetches) = 1

\* C3: after a failed detail fetch for record i, record i is exactly the
\* BasicOnly record pre-populated for it; the phase goes on, so that at its end
\* every record below detail_limit was fetched once, and a record whose fetch
\* succeeded is the detail parser's output for that page.
C3_FailedDetailKeepsBasic ==
    /\ \A k \in DetailFetches :
          LET i == log[k].n + 1 IN
          IF log[k].ok
          THEN all_results[i] = extract_detail_data(log[k].soup[1], all_property_data[i])
          ELSE all_results[i] = basic_record(all_property_data[i])
    /\ pc = "done" =>
          \A j \in 0..(ExpectedDetailLimit - 1) :
             Cardinality({k \in DetailFetches : log[k].n = j}) = 1

\* C3 witness: the fetch for record 0 failed and the one for record 1 succeeded.
C3_Witness ==
    /\ pc = "done"
    /\ \E k1, k2 \in DetailFetches :
          /\ log[k1].n = 0 /\ ~log[k1].ok
          /\ log[k2].n = 1 /\ log[k2].ok
          /\ all_results[1].status = "BasicOnly"
          /\ all_results[2].status = "DetailFetched"

RECURSIVE ConcatParsed(_)
ConcatParsed(events) ==
    IF events = <<>> THEN <<>>
    ELSE (IF Head(events).ok THEN parse_listing(Head(events).soup[1], <<>>) ELSE <<>>)
         \o ConcatParsed(Tail(events))

\* C4: a failed listing fetch adds no record and does not stop the page loop:
\* the loop fetches the pages start_page..end_page once each, in ascending
\* order, whichever fail, and the aggregate is the concatenation, in page
\* order, of the listing parser's outputs for the pages fetched successfully.
C4_PageLoopSkipsFailures ==
    /\ \A k \in 1..Len(PageEvents) : PageEvents[k].n = start_page + k - 1
    /\ PagesOver =>
          Len(PageEvents) = (IF end_page >= start_page
                             THEN end_page - start_page + 1 ELSE 0)
    /\ pc # "fn" => all_property_data = ConcatParsed(PageEvents)

\* C4 witness: a page fetch failed between two that delivered records.
C4_Witness ==
    /\ PagesOver
    /\ Len(PageEvents) = 3
    /\ PageEvents[1].ok /\ ~PageEvents[2].ok /\ PageEvents[3].ok
    /\ Len(all_property_data) = 2

\* C5: no sleep precedes the first fetch of phase 1, and none lies between
\* the end of phase 1 and the first fetch of phase 2: every sleep follows a
\* fetch of its own phase and is directly followed by one.
C5_NoWaitBeforeFirstFetch ==
    \A k \in Sleeps :
        /\ \E j \in Fetches : j < k /\ log[j].phase = log[k].phase
        /\ k < Len(log)
        /\ log[k + 1].kind = "fetch"
        /\ log[k + 1].phase = log[k].phase

\* C5 witness: the first detail fetch directly follows the last listing fetch,
\* in a run that slept in both phases.
C5_Witness ==
    /\ pc = "done"
    /\ \E k \in DetailFetches :
          /\ log[k].n = 0
          /\ log[k - 1].kind = "fetch" /\ log[k - 1].phase = 1
    /\ \E k1, k2 \in Sleeps : log[k1].phase = 1 /\ log[k2].phase = 2

\* C6: within a phase no two consecutive fetches occur without a wait between
\* them (phase 1 begins with the page-count discovery fetch).
C6_WaitBetweenFetches ==
    \A k \in Fetches :
        (k > 1 /\ log[k - 1].kind = "fetch") => log[k - 1].phase # log[k].phase

\* C7 as stated: start_page is clamped to [1, end_page]: every page the loop
\* fetches lies in 1..end_page, and with start_page > end_page the loop still
\* fetches page end_page.
C7_StartPageClamped ==
    /\ \A k \in PageFetches : log[k].n >= 1 /\ log[k].n <= end_page
    /\ (PagesOver /\ start_page > end_page) =>
          \E k \in PageFetches : log[k].n = end_page

\* C7 amended: end_page = min(total_pages, max_pages) and start_page is not
\* clamped: the loop fetches exactly the pages start_page..end_page, so none
\* when start_page > end_page and pages below 1 when start_page < 1.
C7_PagesFetchedUnclamped ==
    /\ pc \notin {"start", "fn", "fn_done"} =>
          /\ total_pages = get_total_pages(log[1].soup)
          /\ end_page = Min(total_pages, max_pages)
    /\ \A k \in PageFetches : log[k].n >= start_page /\ log[k].n <= end_page
    /\ PagesOver =>
          {log[k].n : k \in PageFetches} = start_page..end_page

\* C7 witness: the page loop is over, start_page exceeded end_page and no page
\* was fetched.
C7_Witness ==
    /\ PagesOver
    /\ end_page >= 1
    /\ start_page > end_page
    /\ PageFetches = {}

\* C8 as stated: once a fetch of a URL has failed, that URL is never requested
\* again in the run.
C8_FailedUrlNeverRequestedAgain ==
    \A j, k \in Fetches :
        (j < k /\ ~log[j].ok) => log[k].url # log[j].url

\* C8 amended: no unit of work is fetched twice, whatever the outcome: one
\* discovery fetch, one fetch per page of the loop, one per record; a URL is
\* requested again only by another unit: the first listing page by the page
\* loop after the discovery fetch, a detail URL that two records carry.
C8_NoUnitFetchedTwice ==
    \A j, k \in Fetches :
        j < k =>
           /\ ~(log[j].unit = log[k].unit /\ log[j].n = log[k].n)
           /\ log[j].url = log[k].url =>
                 \/ log[j].unit = "discovery" /\ log[k].unit = "page" /\ log[k].n = 1
                 \/ /\ log[j].unit = "detail" /\ log[k].unit = "detail"
                    /\ all_property_data[log[j].n + 1].url
                          = all_property_data[log[k].n + 1].url

\* C8 witness: the discovery fetch failed and the page loop requested the first
\* listing page, the same URL, after it.
C8_Witness ==
    /\ PagesOver
    /\ \E j, k \in Fetches :
          /\ j < k
          /\ log[j].unit = "discovery" /\ ~log[j].ok
          /\ log[k].unit = "page" /\ log[k].url = log[j].url

HasResolvableUrl(card) == card.link = "href" /\ card.href # <<>>

\* C9: the listing parser's output for a page is the subsequence, in document
\* order, of the cards that have a resolvable URL: a card without one never
\* becomes a record, and every record has a non-empty url.
C9_ListingKeepsCardsWithUrl ==
    (pc = "fn_done") =>
        LET out == fout[1]
            kept == SelectSeq(fin[1], HasResolvableUrl)
        IN  /\ Len(out) = Len(kept)
            /\ \A i \in 1..Len(out) :
                  /\ out[i].url # <<>>
                  /\ out[i].url = (IF StartsWithHttp(kept[i].href) THEN kept[i].href
                                   ELSE site_origin \o kept[i].href)
                  /\ out[i].title = (IF kept[i].raises \/ kept[i].title = None
                                     THEN "unknown" ELSE kept[i].title[1])

\* C9 witness: three cards, one of them without a URL, gave two records.
C9_Witness ==
    /\ pc = "fn_done"
    /\ Len(fin[1]) = 3
    /\ Cardinality({i \in 1..3 : HasResolvableUrl(fin[1][i])}) = 2
    /\ Len(fout[1]) = 2

SetMax(S) == CHOOSE m \in S : \A x \in S : x <= m

ItemsOf(soup) ==
    IF soup # None /\ soup[1].pagination # None THEN soup[1].pagination[1] ELSE <<>>

LinkOr1(soup) == IF soup[1].last.k = "page" THEN soup[1].last.n ELSE 1

\* C10 as stated: the chain is global: if any item has a numeric data-value
\* the result is the maximum of the numeric data-values only; otherwise the
\* maximum of the numeric texts; otherwise page=(N) of the last-page link;
\* otherwise, or when the fetch failed, 1. Stated for the pages whose digit
\* strings are all decimal numbers.
C10_GlobalChain ==
    (pc = "fn_done" /\ \A i \in 1..Len(ItemsOf(fin[1])) :
                          /\ ItemsOf(fin[1])[i].dv # SupDigit
                          /\ ItemsOf(fin[1])[i].text # SupDigit) =>
        LET soup == fin[1]
            items == ItemsOf(soup)
            dvs == {items[i].dv.n : i \in {j \in 1..Len(items) : items[j].dv.k = "digit"}}
            txs == {items[i].text.n :
                       i \in {j \in 1..Len(items) : items[j].text.k = "digit"}}
        IN  fout[1] = (IF soup = None THEN 1
                       ELSE IF dvs # {} THEN SetMax(dvs)
                       ELSE IF txs # {} THEN SetMax(txs)
                       ELSE LinkOr1(soup))

\* The value an item is read by: its data-value when that is a digit string,
\* else its text.
ReadValue(item) == IF IsDigitStr(item.dv) THEN item.dv ELSE item.text

\* C10 amended: the first two strategies apply per item: an item contributes
\* its data-value when that is a digit string and else its text when that is
\* one; if any item contributes, the result is the maximum of all
\* contributions; otherwise page=(N) of the last-page link; otherwise 1; and 1
\* when the fetch failed or a contributed digit string is no decimal number.
C10_PerItemChain ==
    (pc = "fn_done") =>
        LET soup == fin[1]
            items == ItemsOf(soup)
            read == {ReadValue(items[i]) : i \in 1..Len(items)}
            nums == {v.n : v \in {w \in read : w.k = "digit"}}
        IN  fout[1] = (IF soup = None THEN 1
                       ELSE IF SupDigit \in read THEN 1
                       ELSE IF nums # {} THEN SetMax(nums)
                       ELSE LinkOr1(soup))

\* C10 witness: an item with data-value 2 and an item with no data-value and
\* the text 10 resolve to 10.
C10_Witness ==
    /\ pc = "fn_done"
    /\ fin[1] # None
    /\ \E i, j \in 1..Len(ItemsOf(fin[1])) :
          /\ ItemsOf(fin[1])[i].dv = Digit(2)
          /\ ItemsOf(fin[1])[j].dv = Absent
          /\ ItemsOf(fin[1])[j].text = Digit(10)
    /\ fout[1] = 10

UrlDerivedId(url) ==
    IF url_last_segment(url) # None THEN url_last_segment(url)[1] ELSE <<"unknown">>

\* C11: the property id of a record of the detail parser is the final path
\* segment of the record's URL unless an identifier selector yields a
\* non-empty value, and then it is that value; an identifier element with an
\* empty text never replaces the id from the URL. Stated for the extractions
\* in which no step raises.
C11_IdFromUrlUnlessNonEmptyOverride ==
    (pc = "fn_done" /\ fin[1].doc.raises_at = "none") =>
        LET doc == fin[1].doc
            url == fin[1].basic_info.url
        IN  fout[1].property_id =
               (IF doc.id_elem # None /\ doc.id_elem[1] # <<>>
                THEN doc.id_elem[1] ELSE UrlDerivedId(url))

Flag(b) == IF b THEN "ari" ELSE "nashi"

\* The description the detail parser reads: the text of the page's description
\* element when there is one, else the description of the basic record.
DescriptionRead(doc, basic_info) ==
    IF doc.desc_elem # None THEN doc.desc_elem[1] ELSE basic_info.description

ItemHasWord(items, words) ==
    \E i \in 1..Len(items) : \E w \in words : Contains(LowerText(items[i]), w)

TextHasWord(text, words) == \E w \in words : Contains(LowerText(text), w)

\* C12: each amenity flag of a record of the detail parser is exactly present
\* or absent; when the page has an amenities section the flag is present iff
\* some amenity item contains the keyword, whatever the description says; when
\* it has none the flag is present iff the description contains the keyword.
C12_AmenityFlags ==
    (pc = "fn_done") =>
        LET doc == fin[1].doc
            out == fout[1]
            description == DescriptionRead(doc, fin[1].basic_info)
        IN  /\ out.wifi \in {"ari", "nashi"}
            /\ out.sauna \in {"ari", "nashi"}
            /\ doc.amenities # None =>
                  /\ out.wifi = Flag(ItemHasWord(doc.amenities[1], wifi_terms))
                  /\ out.sauna = Flag(ItemHasWord(doc.amenities[1],
                                                  {"sauna", "sauna-kana"}))
            /\ doc.amenities = None =>
                  /\ out.wifi = Flag(TextHasWord(description, wifi_terms))
                  /\ out.sauna = Flag(TextHasWord(description, {"sauna", "sauna-kana"}))

\* The page as it would be had the field of the given step merely missed.
MissedField(doc, step) ==
    CASE step = "id" -> [doc EXCEPT !.raises_at = "none", !.id_elem = None]
      [] step = "date" -> [doc EXCEPT !.raises_at = "none", !.date_sel = <<>>,
                                      !.date_html = None]
      [] step = "floor" -> [doc EXCEPT !.raises_at = "none", !.floor_sel = None,
                                       !.floor_html = None]
      [] OTHER -> [doc EXCEPT !.raises_at = "none"]

DataFields == {"name", "address", "rent", "property_id", "min_term", "built_date",
               "furnished", "size", "sauna", "floor", "wifi", "url", "line"}

\* C14: when resolving the property id, the listing date or the floor raises,
\* every field of the record is what it would be had that field merely
\* missed on the same page.
C14_FieldIsolation ==
    (pc = "fn_done" /\ fin[1].doc.raises_at \in {"id", "date", "floor"}) =>
        LET doc == fin[1].doc
            ref == extract_detail_data(MissedField(doc, doc.raises_at),
                                       fin[1].basic_info)
        IN  \A f \in DataFields : fout[1][f] = ref[f]

\* C15: the detail parser always returns a record with every column, and
\* its status is Error exactly when an exception reached the except clause of
\* the routine and DetailFetched otherwise, however many fields missed.
C15_StatusOfDetailRecord ==
    (pc = "fn_done") =>
        /\ DOMAIN fout[1] = DataFields \cup {"status"}
        /\ fout[1].status = (IF fin[1].doc.raises_at = "none"
                             THEN "DetailFetched" ELSE "Error")

\* C15 witness: a page on which every field missed gives DetailFetched, the
\* fields at their defaults.
C15_Witness ==
    /\ pc = "fn_done"
    /\ fin[1].doc = [raises_at |-> "none", id_elem |-> None, date_sel |-> <<>>,
                     date_html |-> None, floor_sel |-> None, floor_html |-> None,
                     details |-> None, desc_elem |-> Some(NoText),
                     amenities |-> None, contact |-> None]
    /\ fout[1].status = "DetailFetched"
    /\ fout[1].built_date = <<>> /\ fout[1].floor = <<>> /\ fout[1].line = <<>>
    /\ fout[1].wifi = "nashi" /\ fout[1].sauna = "nashi"

\* The value the claim gives the cell of a source record under a column.
ExpectedCell(d, col) ==
    LET v == IF HasKey(d, col) THEN Get(d, col) ELSE "" IN
    IF col \in {"wifi", "sauna"} THEN (IF v = "ari" THEN "maru" ELSE "") ELSE v

\* C13: for any source records, whatever the order of their keys and whatever
\* keys they lack or add, the formatter's row i is the sequence number i
\* followed by the 13 data fields in the fixed order, a missing field as the
\* empty string, wifi and sauna as the presence mark exactly when the source
\* value is "ari" and as the empty string otherwise.
C13_FixedSchema ==
    (pc = "fn_done") =>
        /\ fout[1].columns = <<"No">> \o required_columns
        /\ Len(fout[1].columns) = 14
        /\ Len(fout[1].rows) = Len(fin[1])
        /\ \A i \in 1..Len(fin[1]) :
              fout[1].rows[i]
                 = <<i>> \o [j \in 1..Len(required_columns) |->
                               ExpectedCell(fin[1][i], required_columns[j])]

\* C16: in and after the detail phase, whatever the detail fetches returned,
\* the result sequence is as long as the basic-record sequence, record i has
\* the URL of basic record i, every detail fetch asked for the URL of the
\* record at its own index, and the basic records are still those the listing
\* phase parsed.
C16_ResultsAlignedWithBasics ==
    InDetailPhase =>
        /\ Len(all_results) = Len(all_property_data)
        /\ \A i \in 1..Len(all_results) :
              all_results[i].url = all_property_data[i].url
        /\ \A k \in DetailFetches :
              /\ log[k].url = all_property_data[log[k].n + 1].url
              /\ log[k].url = all_results[log[k].n + 1].url
        /\ all_property_data = ConcatParsed(PageEvents)

\* C16 witness: a finished run over two records with different URLs, the
\* first left as it was by a failed fetch, the second enriched.
C16_Witness ==
    /\ pc = "done"
    /\ Len(all_results) >= 2
    /\ all_results[1].url # all_results[2].url
    /\ all_results[1].status = "BasicOnly"
    /\ all_results[2].status = "DetailFetched"
    /\ \E k \in DetailFetches : log[k].n = 1 /\ log[k].ok

Exports == {k \in 1..Len(log) : log[k].kind \in {"csv", "publish"}}

\* C17: every listing fetch (the discovery fetch and the page fetches) comes
\* before every detail fetch; and once the listing phase is over with no
\* record, the run has failed: no detail fetch, no CSV export, no publication,
\* no result.
C17_ListingBeforeDetailAndEmptyFails ==
    /\ \A j \in Fetches \ DetailFetches : \A k \in DetailFetches : j < k
    /\ (PagesOver /\ all_property_data = <<>>) =>
          /\ pc = "failed"
          /\ DetailFetches = {}
          /\ Exports = {}
          /\ fout = Idle
    /\ (pc = "done") => (fout # Idle /\ fout # None)

\* C17 witness: a failed run in which one page fetch failed and another
\* returned a page without a card.
C17_Witness ==
    /\ pc = "failed"
    /\ \E j, k \in PageFetches : ~log[j].ok /\ log[k].ok
    /\ Exports = {}
    /\ fout = Idle

Terminated == pc \in {"done", "failed"}

\* The bound of the listing fetches, known once the discovery fetch returned.
ListingFetchBound ==
    LET span == Min(total_pages, max_pages) - start_page + 1 IN
    1 + (IF span > 0 THEN span ELSE 0)

FetchesWithinBounds ==
    /\ (pc # "start") => Cardinality(Fetches \ DetailFetches) <= ListingFetchBound
    /\ Cardinality(DetailFetches) <= ExpectedDetailLimit
    /\ \A j, k \in PageFetches : (log[j].n = log[k].n) => (j = k)
    /\ \A j, k \in DetailFetches : (log[j].n = log[k].n) => (j = k)

\* C18: every run terminates, whatever the fetches return, and at no moment
\* has it made more than 1 + max(0, min(total_pages, max_pages) - start_page
\* + 1) listing fetches or more than detail_limit detail fetches, nor fetched
\* a page or a record twice.
C18_TerminatesWithinBounds ==
    /\ <>Terminated
    /\ [](FetchesWithinBounds)

\* C18 witness: a finished run that made exactly as many listing and detail
\* fetches as the bounds allow, some of them failed.
C18_Witness ==
    /\ pc = "done"
    /\ Cardinality(Fetches \ DetailFetches) = ListingFetchBound
    /\ ListingFetchBound >= 3
    /\ Cardinality(DetailFetches) = ExpectedDetailLimit
    /\ ExpectedDetailLimit >= 2
    /\ \E j \in PageFetches : ~log[j].ok
    /\ \E k \in DetailFetches : ~log[k].ok

============================================================================
